---- MODULE Spec2Model ----
(***************************************************************************)
(* A model of sonar: the line buffer with undo/redo (src/src/buffer.rs),   *)
(* the single-line modal editor (src/src/modal.rs) and the application     *)
(* mode machine with its event loop (src/src/main.rs).                     *)
(*                                                                         *)
(* A Rust String is a sequence of UTF-8 bytes and every column is a byte   *)
(* index, so a line is modelled as a sequence of bytes.  Vec and String    *)
(* indices are 0-based in the code and 1-based here: lines[i] of the code  *)
(* is lines[i + 1] of the model.  A panic ends the process; an operation   *)
(* that panics yields a result with panic = TRUE.                          *)
(***************************************************************************)
EXTENDS Naturals, Sequences, FiniteSets, TLC

\* ------------------------------------------------------------- bounds
MaxLines == 2
MaxBytes == 1
MaxHist == 1
MaxRun == 2
MaxModalLen == 2
MaxTurns == 6

\* ------------------------------------------------------------- characters
\* "1" is a one-byte (ASCII) character, the digit; "U" stands for a character whose
\* UTF-8 encoding takes two bytes (such as U+00E9), written <<"U1", "U2">>.
Chars == {"1", "U"}

encode_utf8(ch) == IF ch = "U" THEN <<"U1", "U2">> ELSE <<ch>>

len_utf8(ch) == Len(encode_utf8(ch))

\* A UTF-8 continuation byte (10xxxxxx): never the first byte of a character.
IsContinuation(byte) == byte = "U2"

\* str::is_char_boundary: 0 and len are boundaries, an index past len is not.
is_char_boundary(s, idx) ==
    \/ idx = 0
    \/ idx = Len(s)
    \/ idx < Len(s) /\ ~IsContinuation(s[idx + 1])

\* The character whose encoding starts at byte idx (self[idx..].chars().next()).
char_at(s, idx) == IF s[idx + 1] = "U1" THEN "U" ELSE s[idx + 1]

\* String::insert(idx, ch) asserts is_char_boundary(idx).
string_insert_panics(s, idx) == ~is_char_boundary(s, idx)

string_insert(s, idx, ch) ==
    SubSeq(s, 1, idx) \o encode_utf8(ch) \o SubSeq(s, idx + 1, Len(s))

\* String::remove(idx) slices self[idx..] (idx must be a boundary) and panics
\* when no character starts there (idx = len).
string_remove_panics(s, idx) == ~is_char_boundary(s, idx) \/ idx >= Len(s)

string_remove(s, idx) ==
    SubSeq(s, 1, idx) \o SubSeq(s, idx + len_utf8(char_at(s, idx)) + 1, Len(s))

\* String::split_off(at) asserts is_char_boundary(at); self keeps [0, at).
split_off_panics(s, at) == ~is_char_boundary(s, at)

\* Vec::insert(index, elem) / Vec::remove(index), 0-based.
vec_insert(v, index, elem) ==
    SubSeq(v, 1, index) \o <<elem>> \o SubSeq(v, index + 1, Len(v))

vec_remove(v, index) == SubSeq(v, 1, index) \o SubSeq(v, index + 2, Len(v))

Min(a, b) == IF a <= b THEN a ELSE b

\* ------------------------------------------------------------- BufferOp
InsertChar(cur, ch) == [tag |-> "InsertChar", cur |-> cur, ch |-> ch]

RemoveChar(cur, ch, at) == [tag |-> "RemoveChar", cur |-> cur, ch |-> ch, at |-> at]

SplitLine(cur) == [tag |-> "SplitLine", cur |-> cur]

CombineLine(cur, from) == [tag |-> "CombineLine", cur |-> cur, from |-> from]

NoOp == [tag |-> "NoOp"]

Cursor(line, col) == [line |-> line, col |-> col]

\* ------------------------------------------------------------- Buffer
\* The outcome of a Buffer method: the buffer after it, the BufferOp an op_*
\* returns, and whether the call panicked (the buffer is then as before).
Done(b, op) == [b |-> b, op |-> op, panic |-> FALSE]

Panic(b) == [b |-> b, op |-> NoOp, panic |-> TRUE]

\* self.lines[i] panics when i is out of range.
line_oob(b, i) == i >= Len(b.lines)

cur_line(b) == b.lines[b.cursor.line + 1]

empty ==
    [name |-> "[draft]", lines |-> <<<<>>>>, cursor |-> Cursor(0, 0),
     undos |-> <<>>, redos |-> <<>>]

\* BufRead::lines: the bytes up to each "\n" (the newline dropped); the bytes
\* after the last newline are a line only when there are any.
RECURSIVE read_lines(_, _)
read_lines(data, acc) ==
    IF data = <<>> THEN (IF acc = <<>> THEN <<>> ELSE <<acc>>)
    ELSE IF Head(data) = "\n" THEN <<acc>> \o read_lines(Tail(data), <<>>)
    ELSE read_lines(Tail(data), Append(acc, Head(data)))

\* Buffer::new: an io::Result; a read that fails creates no Buffer.
new(name, read) ==
    IF read.fails THEN [ok |-> FALSE, b |-> empty]
    ELSE [ok |-> TRUE,
          b |-> [name |-> name, lines |-> read_lines(read.data, <<>>),
                 cursor |-> Cursor(0, 0), undos |-> <<>>, redos |-> <<>>]]

\* record_op without the clearing of redos.
record_op_keeps_redos(b, op) ==
    IF op # NoOp THEN [b EXCEPT !.undos = Append(b.undos, op)] ELSE b

\* record_op without the test for NoOp.
record_op_unchecked(b, op) == [b EXCEPT !.undos = Append(b.undos, op), !.redos = <<>>]

record_op(b, op) ==
    IF op # NoOp THEN [b EXCEPT !.undos = Append(b.undos, op), !.redos = <<>>]
    ELSE b

\* ---- navigation
move_cursor_up(b, delta) ==
    IF delta <= b.cursor.line
    THEN LET line == b.cursor.line - delta IN
         IF line_oob(b, line) THEN Panic(b)
         ELSE Done([b EXCEPT !.cursor =
                       Cursor(line, Min(b.cursor.col, Len(b.lines[line + 1])))], NoOp)
    ELSE Done(b, NoOp)

\* move_cursor_down that drops the operations kept for redo.
move_cursor_down_clears_redos(b, delta) ==
    IF Len(b.lines) = 0 THEN Panic(b)
    ELSE LET line == Min(b.cursor.line + delta, Len(b.lines) - 1) IN
         Done([b EXCEPT !.cursor =
                  Cursor(line, Min(b.cursor.col, Len(b.lines[line + 1]))),
                        !.redos = <<>>], NoOp)

\* self.lines.len() - 1 underflows on an empty Vec: a debug build panics on the
\* subtraction, a release build wraps and panics on the index that follows.
move_cursor_down(b, delta) ==
    IF Len(b.lines) = 0 THEN Panic(b)
    ELSE LET line == Min(b.cursor.line + delta, Len(b.lines) - 1) IN
         Done([b EXCEPT !.cursor =
                  Cursor(line, Min(b.cursor.col, Len(b.lines[line + 1])))], NoOp)

\* move_cursor_left that stops at column 0 when delta is more than the column.
move_cursor_left_saturating(b, delta) ==
    Done([b EXCEPT !.cursor.col = IF delta <= b.cursor.col
                                  THEN b.cursor.col - delta ELSE 0], NoOp)

move_cursor_left(b, delta) ==
    IF delta <= b.cursor.col
    THEN Done([b EXCEPT !.cursor.col = b.cursor.col - delta], NoOp)
    ELSE Done(b, NoOp)

move_end_of_line(b) ==
    IF line_oob(b, b.cursor.line) THEN Panic(b)
    ELSE Done([b EXCEPT !.cursor.col = Len(cur_line(b))], NoOp)

move_start_of_line(b) == Done([b EXCEPT !.cursor.col = 0], NoOp)

move_cursor_right(b, delta) ==
    IF line_oob(b, b.cursor.line) THEN Panic(b)
    ELSE Done([b EXCEPT !.cursor.col = Min(b.cursor.col + delta, Len(cur_line(b)))],
              NoOp)

DecimalDigits == <<"0", "1", "2", "3", "4", "5", "6", "7", "8", "9">>

\* usize as decimal digits (format!("{}", line)).
RECURSIVE to_decimal(_)
to_decimal(n) ==
    LET d == (n % 10) + 1 IN
    IF n < 10 THEN <<DecimalDigits[d]>>
    ELSE Append(to_decimal(n \div 10), DecimalDigits[d])

Ok == [ok |-> TRUE, msg |-> <<>>]

Err(msg) == [ok |-> FALSE, msg |-> msg]

go_to_line_in_range(b, line) == line < Len(b.lines) /\ line > 0

\* go_to_line with the cursor moved before the range is tested.
go_to_line_moves_first(b, line) ==
    LET moved == [b EXCEPT !.cursor.line = IF line > 0 THEN line - 1 ELSE 0] IN
    IF go_to_line_in_range(b, line)
    THEN [b |-> moved, res |-> Ok]
    ELSE [b |-> moved,
          res |-> Err(<<"Error: Line ">> \o to_decimal(line) \o <<" is out of bound">>)]

\* Returns the buffer and the Result<(), String>.
go_to_line(b, line) ==
    IF go_to_line_in_range(b, line)
    THEN [b |-> [b EXCEPT !.cursor.line = line - 1], res |-> Ok]
    ELSE [b |-> b,
          res |-> Err(<<"Error: Line ">> \o to_decimal(line) \o <<" is out of bound">>)]

get_line_panics(b) == line_oob(b, b.cursor.line)

\* ---- mutation operations
\* op_newline that loses what stood after the cursor.
op_newline_drops_tail(b) ==
    IF line_oob(b, b.cursor.line) THEN Panic(b)
    ELSE IF split_off_panics(cur_line(b), b.cursor.col) THEN Panic(b)
    ELSE LET kept == SubSeq(cur_line(b), 1, b.cursor.col)
             line == b.cursor.line + 1
         IN Done([b EXCEPT
                    !.lines = vec_insert([b.lines EXCEPT ![b.cursor.line + 1] = kept],
                                         line, <<>>),
                    !.cursor = Cursor(line, 0)],
                 SplitLine(b.cursor))

op_newline(b) ==
    IF line_oob(b, b.cursor.line) THEN Panic(b)
    ELSE IF split_off_panics(cur_line(b), b.cursor.col) THEN Panic(b)
    ELSE LET new_line == SubSeq(cur_line(b), b.cursor.col + 1, Len(cur_line(b)))
             kept == SubSeq(cur_line(b), 1, b.cursor.col)
             line == b.cursor.line + 1
         IN Done([b EXCEPT
                    !.lines = vec_insert([b.lines EXCEPT ![b.cursor.line + 1] = kept],
                                         line, new_line),
                    !.cursor = Cursor(line, 0)],
                 SplitLine(b.cursor))

\* op_insert_char that leaves the cursor where it was.
op_insert_char_keeps_col(b, ch) ==
    IF line_oob(b, b.cursor.line) \/ string_insert_panics(cur_line(b), b.cursor.col)
    THEN Panic(b)
    ELSE Done([b EXCEPT !.lines[b.cursor.line + 1] =
                            string_insert(cur_line(b), b.cursor.col, ch)],
              InsertChar(b.cursor, ch))

op_insert_char(b, ch) ==
    LET cur == b.cursor IN
    IF line_oob(b, cur.line) THEN Panic(b)
    ELSE IF string_insert_panics(cur_line(b), cur.col) THEN Panic(b)
    ELSE Done([b EXCEPT
                 !.lines[cur.line + 1] = string_insert(cur_line(b), cur.col, ch),
                 !.cursor.col = cur.col + 1],
              InsertChar(cur, ch))

op_remove_at(b) ==
    IF line_oob(b, b.cursor.line) THEN Panic(b)
    ELSE IF b.cursor.col < Len(cur_line(b))
    THEN \* Not end of line
         IF string_remove_panics(cur_line(b), b.cursor.col) THEN Panic(b)
         ELSE Done([b EXCEPT !.lines[b.cursor.line + 1] =
                                string_remove(cur_line(b), b.cursor.col)],
                   RemoveChar(b.cursor, char_at(cur_line(b), b.cursor.col), TRUE))
    ELSE IF b.cursor.line < Len(b.lines) - 1
    THEN \* End of line, not end of file
         LET next_line == b.lines[b.cursor.line + 2] IN
         Done([b EXCEPT !.lines =
                  [vec_remove(b.lines, b.cursor.line + 1)
                     EXCEPT ![b.cursor.line + 1] = cur_line(b) \o next_line]],
              CombineLine(b.cursor, "FromEnd"))
    ELSE Done(b, NoOp)

op_remove_before(b) ==
    IF b.cursor.col > 0
    THEN LET col == b.cursor.col - 1 IN
         IF line_oob(b, b.cursor.line) THEN Panic(b)
         ELSE IF string_remove_panics(cur_line(b), col) THEN Panic(b)
         ELSE Done([b EXCEPT !.cursor.col = col,
                             !.lines[b.cursor.line + 1] = string_remove(cur_line(b), col)],
                   RemoveChar(Cursor(b.cursor.line, col), char_at(cur_line(b), col), FALSE))
    ELSE IF b.cursor.line > 0
    THEN \* Start of line, not first line
         IF line_oob(b, b.cursor.line) THEN Panic(b)
         ELSE LET line == cur_line(b)
                  rest == vec_remove(b.lines, b.cursor.line)
                  cur == Cursor(b.cursor.line - 1, Len(rest[b.cursor.line]))
              IN Done([b EXCEPT !.lines = [rest EXCEPT ![cur.line + 1] = @ \o line],
                                !.cursor = cur],
                      CombineLine(cur, "FromStart"))
    ELSE Done(b, NoOp)

\* The public editing calls: the op_* edit, then record_op.
Recorded(r) == IF r.panic THEN r ELSE Done(record_op(r.b, r.op), r.op)

newline(b) == Recorded(op_newline(b))

insert_char(b, ch) == Recorded(op_insert_char(b, ch))

remove_at(b) == Recorded(op_remove_at(b))

remove_before(b) == Recorded(op_remove_before(b))

\* ---- undo / redo
Last(v) == v[Len(v)]

Pop(v) == SubSeq(v, 1, Len(v) - 1)

At(b, cur) == [b EXCEPT !.cursor = cur]

\* The inverse of op applied to b (the match arms of undo).
undo_apply(b, op) ==
    CASE op.tag = "InsertChar" -> op_remove_at(At(b, op.cur))
      [] op.tag = "RemoveChar" ->
            LET r == op_insert_char(At(b, op.cur), op.ch) IN
            IF r.panic \/ ~op.at THEN r ELSE Done(At(r.b, op.cur), r.op)
      [] op.tag = "SplitLine" -> op_remove_at(At(b, op.cur))
      [] op.tag = "CombineLine" ->
            LET r == op_newline(At(b, op.cur)) IN
            IF r.panic \/ op.from # "FromEnd" THEN r ELSE Done(At(r.b, op.cur), r.op)
      [] OTHER -> Done(b, NoOp)

undo(b) ==
    IF b.undos = <<>> THEN Done(b, NoOp)
    ELSE LET op == Last(b.undos)
             r == undo_apply([b EXCEPT !.undos = Pop(b.undos)], op)
         IN IF r.panic THEN Panic(b)
            ELSE Done([r.b EXCEPT !.redos = Append(r.b.redos, op)], op)

\* op applied again to b (the match arms of redo).
redo_apply(b, op) ==
    CASE op.tag = "InsertChar" -> op_insert_char(At(b, op.cur), op.ch)
      [] op.tag = "RemoveChar" ->
            IF op.at THEN op_remove_at(At(b, op.cur))
            ELSE op_remove_before(At(b, op.cur))
      [] op.tag = "SplitLine" -> op_newline(At(b, op.cur))
      [] op.tag = "CombineLine" ->
            IF op.from = "FromStart" THEN op_remove_before(At(b, op.cur))
            ELSE op_remove_at(At(b, op.cur))
      [] OTHER -> Done(b, NoOp)

\* redo that puts the operation back through record_op.
redo_recording(b) ==
    IF b.redos = <<>> THEN Done(b, NoOp)
    ELSE LET op == Last(b.redos)
             r == redo_apply([b EXCEPT !.redos = Pop(b.redos)], op)
         IN IF r.panic THEN Panic(b) ELSE Done(record_op(r.b, op), op)

redo(b) ==
    IF b.redos = <<>> THEN Done(b, NoOp)
    ELSE LET op == Last(b.redos)
             r == redo_apply([b EXCEPT !.redos = Pop(b.redos)], op)
         IN IF r.panic THEN Panic(b)
            ELSE Done([r.b EXCEPT !.undos = Append(r.b.undos, op)], op)

\* ------------------------------------------------------------- Modal
\* The outcome of a Modal method: the modal after it and whether it panicked.
MDone(m) == [m |-> m, panic |-> FALSE]

MPanic(m) == [m |-> m, panic |-> TRUE]

\* Modal::new that starts with text in the line.
modal_new_with_text(name) == [name |-> name, line |-> <<"1">>, col |-> 1]

modal_new(name) == [name |-> name, line |-> <<>>, col |-> 0]

modal_move_cursor_left(m, delta) ==
    IF delta <= m.col THEN MDone([m EXCEPT !.col = m.col - delta]) ELSE MDone(m)

modal_move_end_of_line(m) == MDone([m EXCEPT !.col = Len(m.line)])

modal_move_start_of_line(m) == MDone([m EXCEPT !.col = 0])

modal_move_cursor_right(m, delta) ==
    MDone([m EXCEPT !.col = Min(m.col + delta, Len(m.line))])

modal_insert_char(m, ch) ==
    IF string_insert_panics(m.line, m.col) THEN MPanic(m)
    ELSE MDone([m EXCEPT !.line = string_insert(m.line, m.col, ch),
                         !.col = m.col + 1])

modal_remove_at(m) ==
    IF string_remove_panics(m.line, m.col) THEN MPanic(m)
    ELSE MDone([m EXCEPT !.line = string_remove(m.line, m.col)])

modal_remove_before(m) ==
    IF m.col > 0
    THEN (IF string_remove_panics(m.line, m.col - 1) THEN MPanic(m)
          ELSE MDone([m EXCEPT !.line = string_remove(m.line, m.col - 1),
                               !.col = m.col - 1]))
    ELSE MDone(m)

\* ------------------------------------------------------------- parse
IsDigit(byte) == \E i \in 1..10 : DecimalDigits[i] = byte

DigitValue(byte) == (CHOOSE i \in 1..10 : DecimalDigits[i] = byte) - 1

RECURSIVE decimal_value(_)
decimal_value(s) ==
    IF s = <<>> THEN 0
    ELSE 10 * decimal_value(SubSeq(s, 1, Len(s) - 1)) + DigitValue(s[Len(s)])

\* str::parse::<usize>: an optional "+", then one decimal digit or more (the
\* lengths of the model stay far below usize::MAX).
parse_usize(s) ==
    LET digits == IF s # <<>> /\ Head(s) = "+" THEN Tail(s) ELSE s IN
    IF digits = <<>> \/ \E i \in 1..Len(digits) : ~IsDigit(digits[i])
    THEN [ok |-> FALSE, val |-> 0]
    ELSE [ok |-> TRUE, val |-> decimal_value(digits)]

\* ------------------------------------------------------------- state
VARIABLES
    state,  \* "Editor" | "GoToLineModal" (AppState), "Exited" (the loop ended),
            \* "Panicked" (the process aborted)
    buf,    \* the one Buffer
    modal,  \* the Modal of App<GoToLineModal>
    last,   \* the last call made on the Buffer or Modal: its name, argument,
            \* the BufferOp it returned or moved, and go_to_line's Result
    h,      \* history kept for the properties: see Track
    turns   \* the turns app_loop has taken

vars == <<state, buf, modal, last, h, turns>>

View(b) == [lines |-> b.lines, cursor |-> b.cursor]

NoModal == [name |-> "", line |-> <<>>, col |-> 0]

Call(name, arg, op, res) == [call |-> name, arg |-> arg, op |-> op, res |-> res]

NoCall == Call("none", 0, NoOp, Ok)

EditCalls == {"insert_char", "newline", "remove_at", "remove_before"}

\* What the history variables keep is chosen by h.watch, fixed at the start:
\*   "edits"    last keeps the editing calls, undo and redo;
\*   "moves"    last keeps the names of the navigation calls and go_to_line;
\*   "retreat"  last keeps move_cursor_up and move_cursor_left with their delta;
\*   "goto"     last keeps go_to_line alone;
\*   "app"      last keeps what the application does with a key, and the calls
\*              on the Modal; h.log is <<"typed">> once a character has been
\*              typed in a dialog;
\*   "stacks"   last keeps undo and redo with the operation they moved;
\*   "scenario" h.log keeps every call made since Buffer::empty();
\*   "history"  as "edits", and h keeps the states the undo and redo of the
\*              latest editing calls are to give back.
\* A call that is not kept is recorded as "other".
MoveCalls ==
    {"move_cursor_up", "move_cursor_down", "move_cursor_left", "move_cursor_right",
     "move_start_of_line", "move_end_of_line", "go_to_line"}

AppCalls ==
    {"open", "exit", "cancel", "confirm", "ignored", "modal.move_cursor_left",
     "modal.move_cursor_right", "modal.remove_at", "modal.remove_before",
     "modal.move_start_of_line", "modal.move_end_of_line", "modal.insert_char"}

Watched(watch) ==
    CASE watch = "moves" -> MoveCalls
      [] watch = "retreat" -> {"move_cursor_up", "move_cursor_left"}
      [] watch = "goto" -> {"go_to_line"}
      [] watch = "stacks" -> {"undo", "redo"}
      [] watch = "app" -> AppCalls
      [] OTHER -> EditCalls \cup {"undo", "redo"}

H(watch) ==
    [watch |-> watch, run |-> <<>>, undone |-> 0, expect |-> <<>>, post |-> <<>>,
     p2 |-> 0, p9 |-> 0, log |-> <<>>]

Note(c) ==
    IF c.call \notin Watched(h.watch) THEN Call("other", 0, NoOp, Ok)
    ELSE IF h.watch = "moves" THEN Call(c.call, 0, NoOp, Ok)
    ELSE c

\* The history after call c took the buffer from b to b2:
\*   p9      0, 1 after an Undo that moved an operation, 2 after a recorded
\*           editing call that follows, 3 after the Redo that follows that;
\* and under "history":
\*   run     the (lines, cursor) before each call of the current run of editing
\*           calls that recorded an operation (at most MaxRun of them, the
\*           oldest dropped; any other call but Undo ends the run);
\*   undone  how many Undo calls have followed that run;
\*   expect  <<v>> when those Undo calls are to have reached the state v held
\*           before the call they answer, <<>> otherwise;
\*   post    <<v>> while an editing call's result v awaits Undo then Redo;
\*   p2      0, 1 after an editing call that recorded, 2 after the Undo that
\*           follows it, 3 after the Redo that follows that.
Track(c, b, b2) ==
    LET edit == c.call \in EditCalls
        recorded == edit /\ c.op # NoOp
        isUndo == c.call = "undo"
        isRedo == c.call = "redo"
        answers == isUndo /\ h.undone < Len(h.run)
        p9 == IF h.watch \notin {"edits", "history"} THEN 0
              ELSE IF isUndo /\ c.op # NoOp THEN 1
              ELSE IF recorded /\ h.p9 = 1 THEN 2
              ELSE IF isRedo /\ h.p9 = 2 THEN 3 ELSE 0
    IN IF h.watch # "history" THEN [H(h.watch) EXCEPT !.p9 = p9]
       ELSE [watch |-> h.watch,
             run |-> IF recorded
                     THEN (IF h.undone > 0 THEN <<View(b)>>
                           ELSE IF Len(h.run) < MaxRun THEN Append(h.run, View(b))
                           ELSE Append(Tail(h.run), View(b)))
                     ELSE IF answers THEN h.run
                     ELSE <<>>,
             undone |-> IF answers THEN h.undone + 1 ELSE 0,
             expect |-> IF answers THEN <<h.run[Len(h.run) - h.undone]>> ELSE <<>>,
             post |-> IF recorded THEN <<View(b2)>>
                      ELSE IF (isUndo /\ h.p2 = 1) \/ (isRedo /\ h.p2 = 2) THEN h.post
                      ELSE <<>>,
             p2 |-> IF recorded THEN 1
                    ELSE IF isUndo /\ h.p2 = 1 THEN 2
                    ELSE IF isRedo /\ h.p2 = 2 THEN 3 ELSE 0,
             p9 |-> p9,
             log |-> <<>>]

RECURSIVE TotalLen(_)
TotalLen(v) == IF v = <<>> THEN 0 ELSE Len(Head(v)) + TotalLen(Tail(v))

\* The model's bound on a buffer (lines, bytes in all, operations kept): the
\* calls that would exceed it are not taken.  Under "stacks" the two stacks
\* share one more operation than MaxHist, so that one of them can hold two.
Bounded(b) ==
    /\ Len(b.lines) <= MaxLines
    /\ TotalLen(b.lines) <= MaxBytes
    /\ IF h.watch = "stacks"
       THEN Len(b.undos) + Len(b.redos) <= MaxHist + 1
       ELSE Len(b.undos) <= MaxHist /\ Len(b.redos) <= MaxHist

\* A call on the Buffer whose outcome is r: a panic ends the process.
BufferCall(name, arg, r, res) ==
    /\ IF r.panic
       THEN /\ state' = "Panicked"
            /\ buf' = buf
            /\ last' = Call(name, arg, NoOp, res)
            /\ h' = H(h.watch)
       ELSE /\ Bounded(r.b)
            /\ state' = state
            /\ buf' = r.b
            /\ last' = Note(Call(name, arg, r.op, res))
            /\ h' = Track(Call(name, arg, r.op, res), buf, r.b)
    /\ UNCHANGED modal

\* ------------------------------------------------------------- sources
RECURSIVE SeqsUpTo(_, _)
SeqsUpTo(S, n) ==
    IF n = 0 THEN {<<>>}
    ELSE LET shorter == SeqsUpTo(S, n - 1) IN
         shorter \cup {Append(s, x) : s \in shorter, x \in S}

\* What a source can hold: text and newlines (as many bytes as a document
\* within the bounds takes), or a read that fails.
Sources ==
    {[data |-> d, fails |-> FALSE] :
        d \in SeqsUpTo({"1", "\n"}, MaxBytes + MaxLines - 1)}
        \cup {[data |-> <<>>, fails |-> TRUE]}

\* The buffers construction gives: Buffer::empty() and Buffer::new of a source.
Constructed ==
    {empty} \cup {new("[draft]", s).b : s \in {x \in Sources : new("[draft]", x).ok}}

\* The arguments the navigation calls are given.
Deltas == {0, 1, 2}

LineNumbers == 0..(MaxLines + 1)

\* ------------------------------------------------------------- Buffer's API
\* The Buffer driven through its public methods by any caller.
InitWith(watch) ==
    /\ h = H(watch)
    /\ state = "Editor"
    /\ buf \in {b \in Constructed : Bounded(b)}
    /\ modal = NoModal
    /\ last = NoCall
    /\ turns = 0

BufferInit == InitWith("edits")

MoveInit == InitWith("moves")

GotoInit == InitWith("goto")

RetreatInit == InitWith("retreat")

HistoryInit == InitWith("history")

StacksInit == InitWith("stacks")

MoveCursorUp ==
    /\ state = "Editor"
    /\ UNCHANGED turns
    /\ \E delta \in Deltas :
          BufferCall("move_cursor_up", delta, move_cursor_up(buf, delta), Ok)

MoveCursorDown ==
    /\ state = "Editor"
    /\ UNCHANGED turns
    /\ \E delta \in Deltas :
          BufferCall("move_cursor_down", delta, move_cursor_down(buf, delta), Ok)

MoveCursorLeft ==
    /\ state = "Editor"
    /\ UNCHANGED turns
    /\ \E delta \in Deltas :
          BufferCall("move_cursor_left", delta, move_cursor_left(buf, delta), Ok)

MoveCursorRight ==
    /\ state = "Editor"
    /\ UNCHANGED turns
    /\ \E delta \in Deltas :
          BufferCall("move_cursor_right", delta, move_cursor_right(buf, delta), Ok)

MoveEndOfLine ==
    /\ state = "Editor"
    /\ UNCHANGED turns
    /\ BufferCall("move_end_of_line", 0, move_end_of_line(buf), Ok)

MoveStartOfLine ==
    /\ state = "Editor"
    /\ UNCHANGED turns
    /\ BufferCall("move_start_of_line", 0, move_start_of_line(buf), Ok)

GoToLine ==
    /\ state = "Editor"
    /\ UNCHANGED turns
    /\ \E line \in LineNumbers :
          LET r == go_to_line(buf, line) IN
          BufferCall("go_to_line", line, Done(r.b, NoOp), r.res)

Newline ==
    /\ state = "Editor"
    /\ UNCHANGED turns
    /\ BufferCall("newline", 0, newline(buf), Ok)

InsertCharCall ==
    /\ state = "Editor"
    /\ UNCHANGED turns
    /\ \E ch \in Chars : BufferCall("insert_char", ch, insert_char(buf, ch), Ok)

RemoveAt ==
    /\ state = "Editor"
    /\ UNCHANGED turns
    /\ BufferCall("remove_at", 0, remove_at(buf), Ok)

RemoveBefore ==
    /\ state = "Editor"
    /\ UNCHANGED turns
    /\ BufferCall("remove_before", 0, remove_before(buf), Ok)

Undo ==
    /\ state = "Editor"
    /\ UNCHANGED turns
    /\ BufferCall("undo", 0, undo(buf), Ok)

Redo ==
    /\ state = "Editor"
    /\ UNCHANGED turns
    /\ BufferCall("redo", 0, redo(buf), Ok)

BufferNext ==
    \/ MoveCursorUp
    \/ MoveCursorDown
    \/ MoveCursorLeft
    \/ MoveCursorRight
    \/ MoveEndOfLine
    \/ MoveStartOfLine
    \/ GoToLine
    \/ Newline
    \/ InsertCharCall
    \/ RemoveAt
    \/ RemoveBefore
    \/ Undo
    \/ Redo

BufferSpec == BufferInit /\ [][BufferNext]_vars

MoveSpec == MoveInit /\ [][BufferNext]_vars

GotoSpec == GotoInit /\ [][BufferNext]_vars

RetreatSpec == RetreatInit /\ [][BufferNext]_vars

HistorySpec == HistoryInit /\ [][BufferNext]_vars

\* The Buffer driven by the editing calls, Home, End, Undo and Redo alone, so
\* that the stacks can be followed one operation deeper.
StacksNext ==
    \/ MoveStartOfLine
    \/ MoveEndOfLine
    \/ Newline
    \/ InsertCharCall
    \/ RemoveAt
    \/ RemoveBefore
    \/ Undo
    \/ Redo

StacksSpec == StacksInit /\ [][StacksNext]_vars

\* ------------------------------------------------------------- a typing run
\* The keys of a short typing run, in order ("\n" is Enter), as
\* App<Editor>::handle_input turns them into calls: insert_char for a
\* character, newline for Enter.
Scenario == <<"a", "b", "\n", "c", "d">>

ScenarioKeys == {Scenario[i] : i \in 1..Len(Scenario)}

Undos(n) == [i \in 1..n |-> "undo"]

\* The buffers such a run can build: no more lines, bytes and recorded
\* operations than the run has Enter keys, characters and keys.
ScenarioBounded(b) ==
    /\ Len(b.lines) <= 1 + Cardinality({i \in 1..Len(Scenario) : Scenario[i] = "\n"})
    /\ TotalLen(b.lines) <= Cardinality({i \in 1..Len(Scenario) : Scenario[i] # "\n"})
    /\ Len(b.undos) + Len(b.redos) <= Len(Scenario)

ScenarioInit ==
    /\ state = "Editor"
    /\ buf = empty
    /\ modal = NoModal
    /\ last = NoCall
    /\ h = H("scenario")
    /\ turns = 0

ScenarioCall(name, arg, r) ==
    /\ IF r.panic
       THEN state' = "Panicked" /\ buf' = buf
       ELSE ScenarioBounded(r.b) /\ state' = state /\ buf' = r.b
    /\ last' = Call(name, arg, r.op, Ok)
    /\ h' = [h EXCEPT !.log = Append(h.log, IF name = "undo" THEN name ELSE arg)]
    /\ UNCHANGED <<modal, turns>>

\* Keys are typed (any of the run's keys, in any order) before the first Undo.
ScenarioChar ==
    /\ state = "Editor"
    /\ Len(h.log) < Len(Scenario)
    /\ \A i \in 1..Len(h.log) : h.log[i] # "undo"
    /\ \E ch \in ScenarioKeys \ {"\n"} :
          ScenarioCall("insert_char", ch, insert_char(buf, ch))

ScenarioEnter ==
    /\ state = "Editor"
    /\ Len(h.log) < Len(Scenario)
    /\ \A i \in 1..Len(h.log) : h.log[i] # "undo"
    /\ ScenarioCall("newline", "\n", newline(buf))

\* Undo is called at most once more than there are keys typed.
ScenarioUndo ==
    /\ state = "Editor"
    /\ Cardinality({i \in 1..Len(h.log) : h.log[i] = "undo"})
          <= Cardinality({i \in 1..Len(h.log) : h.log[i] # "undo"})
    /\ ScenarioCall("undo", 0, undo(buf))

ScenarioNext == ScenarioChar \/ ScenarioEnter \/ ScenarioUndo

ScenarioSpec == ScenarioInit /\ [][ScenarioNext]_vars

\* ------------------------------------------------------------- application
\* main: the Buffer is read from a file and unwrapped, then app_loop runs in
\* App<Editor>.
Init ==
    /\ h = H("app")
    /\ \E read \in Sources :
          LET r == new("[draft]", read) IN
          IF r.ok /\ Bounded(r.b)
          THEN state = "Editor" /\ buf = r.b
          ELSE ~r.ok /\ state = "Panicked" /\ buf = empty
    /\ modal = NoModal
    /\ last = NoCall
    /\ turns = 0

\* app_loop takes one more turn (at most MaxTurns in the model).
Turn == turns < MaxTurns /\ turns' = turns + 1

\* The characters a key event carries: typed ones, and the letters of the
\* CONTROL chords.
KeyChars == Chars

ControlChars == {"g", "z", "y"}

\* One turn of app_loop in App<Editor>: draw_screen (get_line indexes the
\* cursor's line), get_event, then handle_input's call on the Buffer.
EditorCall(name, arg, r) ==
    /\ Turn
    /\ IF get_line_panics(buf)
       THEN /\ state' = "Panicked"
            /\ last' = Call("draw", 0, NoOp, Ok)
            /\ UNCHANGED <<buf, modal, h>>
       ELSE BufferCall(name, arg, r, Ok)

\* A turn of app_loop in App<Editor> that leaves the Buffer alone and moves to
\* the state next.
EditorTurn(name, next, m) ==
    /\ Turn
    /\ IF get_line_panics(buf)
       THEN /\ state' = "Panicked"
            /\ last' = Call("draw", 0, NoOp, Ok)
            /\ UNCHANGED <<buf, modal, h>>
       ELSE /\ state' = next
            /\ modal' = m
            /\ last' = Note(Call(name, 0, NoOp, Ok))
            /\ UNCHANGED <<buf, h>>

EditorOpenGoToLine ==
    /\ state = "Editor"
    /\ EditorTurn("open", "GoToLineModal", modal_new("Go to line"))

EditorExit ==
    /\ state = "Editor"
    /\ EditorTurn("exit", "Exited", modal)

\* Any other CONTROL chord, any other key code, any event that is no key.
EditorIgnored ==
    /\ state = "Editor"
    /\ EditorTurn("ignored", "Editor", modal)

EditorUndo ==
    /\ state = "Editor"
    /\ EditorCall("undo", 0, undo(buf))

EditorRedo ==
    /\ state = "Editor"
    /\ EditorCall("redo", 0, redo(buf))

EditorEnter ==
    /\ state = "Editor"
    /\ EditorCall("newline", 0, newline(buf))

EditorUp ==
    /\ state = "Editor"
    /\ EditorCall("move_cursor_up", 1, move_cursor_up(buf, 1))

EditorDown ==
    /\ state = "Editor"
    /\ EditorCall("move_cursor_down", 1, move_cursor_down(buf, 1))

EditorLeft ==
    /\ state = "Editor"
    /\ EditorCall("move_cursor_left", 1, move_cursor_left(buf, 1))

EditorRight ==
    /\ state = "Editor"
    /\ EditorCall("move_cursor_right", 1, move_cursor_right(buf, 1))

EditorDelete ==
    /\ state = "Editor"
    /\ EditorCall("remove_at", 0, remove_at(buf))

EditorBackspace ==
    /\ state = "Editor"
    /\ EditorCall("remove_before", 0, remove_before(buf))

EditorHome ==
    /\ state = "Editor"
    /\ EditorCall("move_start_of_line", 0, move_start_of_line(buf))

EditorEnd ==
    /\ state = "Editor"
    /\ EditorCall("move_end_of_line", 0, move_end_of_line(buf))

EditorChar ==
    /\ state = "Editor"
    /\ \E ch \in KeyChars :
          EditorCall("insert_char", ch, insert_char(buf, ch))

\* One turn of app_loop in App<GoToLineModal>: handle_modal_input's call on
\* the Modal (draw reads the Modal and cannot fail).
ModalCall(name, r) ==
    /\ Turn
    /\ IF r.panic
       THEN state' = "Panicked" /\ modal' = modal
       ELSE Len(r.m.line) <= MaxModalLen /\ state' = state /\ modal' = r.m
    /\ last' = Note(Call(name, 0, NoOp, Ok))
    /\ h' = IF name = "modal.insert_char" /\ ~r.panic
            THEN [h EXCEPT !.log = <<"typed">>] ELSE h
    /\ UNCHANGED buf

ModalLeft ==
    /\ state = "GoToLineModal"
    /\ ModalCall("modal.move_cursor_left", modal_move_cursor_left(modal, 1))

ModalRight ==
    /\ state = "GoToLineModal"
    /\ ModalCall("modal.move_cursor_right", modal_move_cursor_right(modal, 1))

ModalDelete ==
    /\ state = "GoToLineModal"
    /\ ModalCall("modal.remove_at", modal_remove_at(modal))

ModalBackspace ==
    /\ state = "GoToLineModal"
    /\ ModalCall("modal.remove_before", modal_remove_before(modal))

ModalHome ==
    /\ state = "GoToLineModal"
    /\ ModalCall("modal.move_start_of_line", modal_move_start_of_line(modal))

ModalEnd ==
    /\ state = "GoToLineModal"
    /\ ModalCall("modal.move_end_of_line", modal_move_end_of_line(modal))

\* The key's modifiers are not looked at here: a CONTROL chord types its letter.
ModalChar ==
    /\ state = "GoToLineModal"
    /\ \E ch \in KeyChars \cup ControlChars :
          ModalCall("modal.insert_char", modal_insert_char(modal, ch))

\* Any other key code, any event that is no key.
ModalIgnored ==
    /\ state = "GoToLineModal"
    /\ ModalCall("ignored", MDone(modal))

\* App<Editor> from App<GoToLineModal> with the cursor sent back to the start.
editor_from_modal_resets(b) == [b EXCEPT !.cursor = Cursor(0, 0)]

\* From<App<GoToLineModal>> for App<Editor>: the Buffer the Editor is given.
editor_from_modal(b) == b

\* Esc: back to App<Editor> with the Buffer, the Modal dropped.
ModalCancel ==
    /\ state = "GoToLineModal"
    /\ Turn
    /\ state' = "Editor"
    /\ buf' = editor_from_modal(buf)
    /\ modal' = NoModal
    /\ last' = Note(Call("cancel", 0, NoOp, Ok))
    /\ UNCHANGED h

\* Enter: the Modal's line is parsed and unwrapped, go_to_line is called and
\* its Result unwrapped, then back to App<Editor>.
ModalConfirm ==
    /\ state = "GoToLineModal"
    /\ Turn
    /\ LET line_no == parse_usize(modal.line)
           r == go_to_line(buf, line_no.val)
       IN IF ~line_no.ok
          THEN /\ state' = "Panicked"
               /\ last' = Call("confirm", 0, NoOp, Err(<<"ParseIntError">>))
               /\ UNCHANGED <<buf, modal, h>>
          ELSE IF ~r.res.ok
          THEN /\ state' = "Panicked"
               /\ last' = Call("confirm", line_no.val, NoOp, r.res)
               /\ UNCHANGED <<buf, modal, h>>
          ELSE /\ state' = "Editor"
               /\ buf' = editor_from_modal(r.b)
               /\ modal' = NoModal
               /\ last' = Note(Call("confirm", line_no.val, NoOp, r.res))
               /\ UNCHANGED h

Next ==
    \/ EditorOpenGoToLine
    \/ EditorExit
    \/ EditorIgnored
    \/ EditorUndo
    \/ EditorRedo
    \/ EditorEnter
    \/ EditorUp
    \/ EditorDown
    \/ EditorLeft
    \/ EditorRight
    \/ EditorDelete
    \/ EditorBackspace
    \/ EditorHome
    \/ EditorEnd
    \/ EditorChar
    \/ ModalLeft
    \/ ModalRight
    \/ ModalDelete
    \/ ModalBackspace
    \/ ModalHome
    \/ ModalEnd
    \/ ModalChar
    \/ ModalIgnored
    \/ ModalCancel
    \/ ModalConfirm

Spec == Init /\ [][Next]_vars

\* ------------------------------------------------------------- properties
CursorInside(b) ==
    /\ b.cursor.line < Len(b.lines)
    /\ b.cursor.col <= Len(cur_line(b))

AtEndOfDocument(b) ==
    /\ b.cursor.line + 1 = Len(b.lines)
    /\ b.cursor.col = Len(cur_line(b))

AtStartOfDocument(b) == b.cursor = Cursor(0, 0)

\* C1 (HistorySpec): after k editing calls and then k Undo calls, lines and
\* cursor are those held before the k calls.  Stated for the editing calls that
\* recorded an operation: a call at a document boundary records nothing, and
\* the Undo that follows it answers an earlier call.
UndoRestoresState == h.expect # <<>> => View(buf) = h.expect[1]

\* C2 (HistorySpec): an editing call, then Undo, then Redo leaves lines and
\* cursor as they were right after the editing call.
RedoRestoresState == h.p2 = 3 => View(buf) = h.post[1]

\* C3 (BufferSpec): no navigation or editing call, undo or redo aborts the
\* process.  Stated for the buffers that hold a line (C5 is about the others).
OperationsNeverAbort == Len(buf.lines) > 0 => state # "Panicked"

\* C4 (BufferSpec): after any call the cursor's line is a line of the buffer and
\* its column is at most that line's length.  Stated for the buffers that hold
\* a line (C5 is about the others).
CursorWithinLines == Len(buf.lines) > 0 => CursorInside(buf)

\* C5 (BufferSpec): lines always has at least one entry.
LinesNeverEmpty == Len(buf.lines) >= 1

\* C6 (GotoSpec): go_to_line(n) succeeds exactly when 1 <= n <= length(lines),
\* and then the cursor's line is n - 1.
GoToLineSucceedsInRange ==
    last.call = "go_to_line" =>
        /\ last.res.ok <=> last.arg \in 1..Len(buf.lines)
        /\ last.res.ok => buf.cursor.line = last.arg - 1

\* The message of a failed go_to_line carries the decimal digits of n.
FailureNames(msg, n) ==
    /\ Len(msg) >= 3
    /\ parse_usize(SubSeq(msg, 2, Len(msg) - 1)) = [ok |-> TRUE, val |-> n]

\* C7 (GotoSpec): go_to_line(n) with n outside 1..length(lines) returns an
\* error that names n, and leaves the whole buffer (lines, cursor, undos,
\* redos) as it was.
GoToLineFailureLeavesBuffer ==
    [][(last'.call = "go_to_line" /\ last'.arg \notin 1..Len(buf.lines)) =>
          /\ ~last'.res.ok
          /\ FailureNames(last'.res.msg, last'.arg)
          /\ buf' = buf
          /\ state' = "Editor"]_vars

\* C7's case: a go_to_line past the last line of a buffer that has been
\* edited, which failed.
GoToLineFailed ==
    /\ last.call = "go_to_line"
    /\ last.arg > Len(buf.lines)
    /\ ~last.res.ok
    /\ buf.undos # <<>>

\* C8 (Spec): a confirm in the dialog always leads back to Editing, whatever
\* the Modal's line holds; the process never aborts on it.
ConfirmReturnsToEditing == last.call = "confirm" => state = "Editor"

\* C9 (BufferSpec): an editing call that records an operation empties redos,
\* and the Redo that comes after an Undo and then such a call changes nothing
\* of the buffer.
RecordingClearsRedo ==
    [][/\ (last'.call \in EditCalls /\ last'.op # NoOp) => buf'.redos = <<>>
       /\ (h.p9 = 2 /\ last'.call = "redo") => buf' = buf]_vars

\* C9's case: Undo, then a recorded editing call, then Redo.
RedoAfterNewEdit == h.p9 = 3 /\ last.call = "redo" /\ state = "Editor"

NoOpInStacks(b) ==
    \/ \E i \in 1..Len(b.undos) : b.undos[i] = NoOp
    \/ \E i \in 1..Len(b.redos) : b.redos[i] = NoOp

\* C10 (BufferSpec): remove_at at the end of the last line and remove_before at
\* line 0, column 0 leave the whole buffer as it was (nothing is pushed on
\* undos, redos is kept), and neither stack ever holds NoOp.
BoundaryRemovalsRecordNothing ==
    /\ []~NoOpInStacks(buf)
    /\ [][(\/ last'.call = "remove_at" /\ AtEndOfDocument(buf)
           \/ last'.call = "remove_before" /\ AtStartOfDocument(buf)) =>
             /\ buf' = buf
             /\ last'.op = NoOp
             /\ state' = "Editor"]_vars

\* C10's case: remove_at at the end of the document, with an operation
\* recorded on undos.
RemoveAtEndOfDocument ==
    /\ last.call = "remove_at"
    /\ last.op = NoOp
    /\ AtEndOfDocument(buf)
    /\ buf.undos # <<>>

\* C11 (Spec): in the dialog every input but confirm leaves the whole buffer
\* (lines, cursor, undos, redos) as it was, and Esc gives Editing that very
\* buffer back.
DialogLeavesBuffer ==
    [][(state = "GoToLineModal" /\ last'.call # "confirm") =>
          /\ buf' = buf
          /\ last'.call = "cancel" => state' = "Editor"]_vars

\* C11's case: Esc in a dialog in which text was typed, opened over a buffer
\* that has been edited.
DialogCancelled ==
    /\ last.call = "cancel"
    /\ state = "Editor"
    /\ h.log # <<>>
    /\ buf.undos # <<>>
    /\ buf.cursor # Cursor(0, 0)

\* C12 (Spec): Modal::remove_at with col = length(line), as on the fresh empty
\* Modal, changes neither line nor col and does not abort.
ModalRemoveAtEndIsNoOp ==
    [][(/\ state = "GoToLineModal"
        /\ last'.call = "modal.remove_at"
        /\ modal.col = Len(modal.line)) =>
          /\ modal' = modal
          /\ state' = "GoToLineModal"]_vars

\* C13 (RetreatSpec): move_cursor_left(delta) with delta above the cursor's
\* column, and move_cursor_up(delta) with delta above the cursor's line, leave
\* the whole buffer (lines, cursor, undos, redos) as it was and do not abort.
RetreatPastStartLeavesBuffer ==
    [][(\/ last'.call = "move_cursor_left" /\ last'.arg > buf.cursor.col
        \/ last'.call = "move_cursor_up" /\ last'.arg > buf.cursor.line) =>
          /\ buf' = buf
          /\ state' = "Editor"]_vars

\* C13's case: move_cursor_left by more than the column of a cursor that is
\* not at column 0.
MovedLeftPastStart ==
    /\ last.call = "move_cursor_left"
    /\ last.arg > buf.cursor.col
    /\ buf.cursor.col > 0

TypedText == [lines |-> <<<<"a", "b">>, <<"c", "d">>>>, cursor |-> Cursor(1, 2)]

\* C14 as stated (ScenarioSpec): from the empty buffer, "ab", Enter, "cd" give
\* lines ["ab", "cd"] and cursor (1,2), and three Undo calls after that give
\* lines [""] and cursor (0,0).
ThreeUndosEmptyTheBuffer ==
    /\ h.log = Scenario => View(buf) = TypedText
    /\ h.log = Scenario \o Undos(3) => View(buf) = View(empty)

\* C14 amended (ScenarioSpec): from the empty buffer, "ab", Enter, "cd" give
\* lines ["ab", "cd"] and cursor (1,2); three Undo calls after that give lines
\* ["ab"] and cursor (0,2), and five give lines [""] and cursor (0,0): each
\* character typed is one recorded operation.
UndoPerKeyTyped ==
    /\ h.log = Scenario => View(buf) = TypedText
    /\ h.log = Scenario \o Undos(3) =>
          View(buf) = [lines |-> <<<<"a", "b">>>>, cursor |-> Cursor(0, 2)]
    /\ h.log = Scenario \o Undos(Len(Scenario)) => View(buf) = View(empty)

\* C14's case: the five keys typed, then five Undo calls.
ScenarioUndone == h.log = Scenario \o Undos(Len(Scenario)) /\ state = "Editor"

\* C15 (Spec): when the Modal's line holds the decimal digits of a number n
\* with 1 <= n <= length(lines), confirm returns to Editing with the cursor on
\* line n - 1 and lines, undos and redos as they were.
DialogGoesToLine ==
    [][(/\ state = "GoToLineModal"
        /\ last'.call = "confirm"
        /\ \E n \in 1..Len(buf.lines) : modal.line = to_decimal(n)) =>
          /\ state' = "Editor"
          /\ to_decimal(buf'.cursor.line + 1) = modal.line
          /\ buf'.lines = buf.lines
          /\ buf'.undos = buf.undos
          /\ buf'.redos = buf.redos]_vars

\* C16 (Spec): every open-go-to-line command taken in Editing leads to the
\* dialog with the whole buffer as it was and a Modal named "Go to line" whose
\* line is empty and whose col is 0, whatever was typed in an earlier dialog.
OpenGivesFreshModal ==
    [][last'.call = "open" =>
          /\ state = "Editor"
          /\ state' = "GoToLineModal"
          /\ buf' = buf
          /\ modal' = [name |-> "Go to line", line |-> <<>>, col |-> 0]]_vars

\* C16's case: the dialog opened again after text was typed in an earlier one.
DialogReopened ==
    /\ last.call = "open"
    /\ state = "GoToLineModal"
    /\ h.log # <<>>

\* C17 (Spec): the loop ends only on Esc in Editing and nothing happens after
\* it; Esc in the dialog leads to Editing and the dialog never ends the loop;
\* every other key in Editing (stated for the navigation, editing, undo and
\* redo keys and the ignored events, on a buffer that holds a line) leaves the
\* application in Editing.
ExitOnlyFromEditing ==
    [][/\ state' = "Exited" => (state = "Editor" /\ last'.call = "exit")
       /\ state # "Exited"
       /\ state = "GoToLineModal" => state' # "Exited"
       /\ (state = "GoToLineModal" /\ last'.call = "cancel") => state' = "Editor"
       /\ (state = "Editor" /\ Len(buf.lines) > 0 /\ last'.call \notin {"exit", "open"})
             => state' = "Editor"]_vars

\* C18 (StacksSpec): an Undo that returns moves the top of undos, and nothing
\* else, onto redos; a Redo that returns moves the top of redos, and nothing
\* else, onto undos, the rest of redos kept; on an empty stack either changes
\* nothing of the buffer.
UndoRedoMoveOneOperation ==
    [][/\ (last'.call = "undo" /\ state' = "Editor") =>
             IF buf.undos = <<>> THEN buf' = buf
             ELSE /\ buf'.undos = Pop(buf.undos)
                  /\ buf'.redos = Append(buf.redos, Last(buf.undos))
       /\ (last'.call = "redo" /\ state' = "Editor") =>
             IF buf.redos = <<>> THEN buf' = buf
             ELSE /\ buf'.redos = Pop(buf.redos)
                  /\ buf'.undos = Append(buf.undos, Last(buf.redos))]_vars

\* C18's case: a Redo taken with two operations on redos, one of which stays.
RedoKeptTheRest ==
    /\ last.call = "redo"
    /\ state = "Editor"
    /\ buf.undos # <<>>
    /\ buf.redos # <<>>

\* C19 (MoveSpec): the navigation calls (move_cursor_up, _down, _left, _right,
\* move_start_of_line, move_end_of_line, go_to_line) change neither lines nor
\* undos nor redos, so what an Undo put on redos is still there after them.
NavigationKeepsTextAndHistory ==
    [][last'.call \in MoveCalls =>
          /\ buf'.lines = buf.lines
          /\ buf'.undos = buf.undos
          /\ buf'.redos = buf.redos]_vars

\* C19's case: the cursor moved down a line while an undone operation waits
\* on redos.
MovedWithRedoPending ==
    /\ last.call = "move_cursor_down"
    /\ state = "Editor"
    /\ buf.cursor.line > 0
    /\ buf.redos # <<>>

\* The text of the document: its lines one after the other.
RECURSIVE Concat(_)
Concat(v) == IF v = <<>> THEN <<>> ELSE Head(v) \o Concat(Tail(v))

\* Where the cursor (line, col) stands in the text of b.
Offset(b, line, col) == Len(Concat(SubSeq(b.lines, 1, line))) + col

\* text with the bytes of ch put in after its first off bytes.
WithChar(text, off, ch) ==
    SubSeq(text, 1, off) \o encode_utf8(ch) \o SubSeq(text, off + 1, Len(text))

\* The document of b2 is the document of b with one line more and the same
\* text.
OneLineMore(b, b2) ==
    /\ Concat(b2.lines) = Concat(b.lines)
    /\ Len(b2.lines) = Len(b.lines) + 1

\* The document of b2 is the document of b with one character more, at byte
\* off of the text, and as many lines.
OneCharMore(b, b2, off) ==
    /\ Len(b2.lines) = Len(b.lines)
    /\ \E ch \in Chars : Concat(b2.lines) = WithChar(Concat(b.lines), off, ch)

====
